---- MODULE Spec2Model ----
(***************************************************************************)
(* Code_Reviewer backend: the Flask front (backend/app.py) and the Gemini   *)
(* client (backend/gemini_client.py).                                       *)
(*                                                                          *)
(* A text is a sequence of one-character strings, so that strip, the two    *)
(* fence regular expressions, find/rfind, slicing, json.loads and           *)
(* json.dumps are computed character by character as the Python code        *)
(* computes them.  Indices are Python's (0-based, -1 for "not found").       *)
(***************************************************************************)
EXTENDS Integers, Sequences, FiniteSets, TLC

\* ------------------------------------------------------------------ bounds
\* Longest provider text enumerated over Sigma.
MaxLen == 3
\* Longest language tag after an opening fence in the composed texts.
MaxLetters == 2
\* Longest provider exception message enumerated over MsgSigma.
MaxMsgLen == 2

\* -------------------------------------------------------------- characters
LBrace == "{"
RBrace == "}"
\* The backtick (the module's lexer takes no backtick inside a string literal).
Tick == "BACKTICK"
Quote == "\""
Backslash == "\\"
NL == "\n"
SP == " "
\* The one non-ASCII character of the sources (the cross mark of get_client's message).
CrossMark == "U+274C"

\* str.strip() with no argument removes these (those of them the model's texts can hold).
PyWhitespace == {" ", "\t", "\n", "\r", "\f"}
\* json.decoder.WHITESPACE: [ \t\n\r]*
JsonWs == {" ", "\t", "\n", "\r"}
\* Characters below 0x20, which json.loads (strict) rejects inside a string.
ControlChars == {"\t", "\n", "\r", "\f"}
Digits == {"0", "1", "2", "3", "4", "5", "6", "7", "8", "9"}
HexDigits == Digits \cup {"a", "b", "c", "d", "e", "f", "A", "B", "C", "D", "E", "F"}
\* [a-zA-Z]
AsciiLetters ==
  {"a", "b", "c", "d", "e", "f", "g", "h", "i", "j", "k", "l", "m",
   "n", "o", "p", "q", "r", "s", "t", "u", "v", "w", "x", "y", "z",
   "A", "B", "C", "D", "E", "F", "G", "H", "I", "J", "K", "L", "M",
   "N", "O", "P", "Q", "R", "S", "T", "U", "V", "W", "X", "Y", "Z"}

\* ------------------------------------------------------------ string texts
S_error ==
  <<"e", "r", "r", "o", "r">>
S_summary ==
  <<"s", "u", "m", "m", "a", "r", "y">>
S_raw ==
  <<"r", "a", "w">>
MSG_NO_CODE ==
  <<"N", "o", " ", "c", "o", "d", "e", " ", "p", "r", "o", "v", "i", "d", "e", "d",
    ".">>
MSG_NON_JSON ==
  <<"G", "e", "m", "i", "n", "i", " ", "r", "e", "t", "u", "r", "n", "e", "d", " ",
    "n", "o", "n", "-", "J", "S", "O", "N", ".", " ", "S", "h", "o", "w", "i", "n",
    "g", " ", "r", "a", "w", ".">>
MSG_KEY_TAIL ==
  <<" ", "G", "E", "M", "I", "N", "I", "_", "A", "P", "I", "_", "K", "E", "Y", " ",
    "e", "n", "v", "i", "r", "o", "n", "m", "e", "n", "t", " ", "v", "a", "r", "i",
    "a", "b", "l", "e", " ", "i", "s", " ", "n", "o", "t", " ", "s", "e", "t", ".">>
S_code_status ==
  <<"c", "o", "d", "e", "_", "s", "t", "a", "t", "u", "s">>
S_issues_found ==
  <<"i", "s", "s", "u", "e", "s", "_", "f", "o", "u", "n", "d">>
S_suggestions ==
  <<"s", "u", "g", "g", "e", "s", "t", "i", "o", "n", "s">>
S_Incorrect ==
  <<"I", "n", "c", "o", "r", "r", "e", "c", "t">>
MSG_NOT_VALID_JSON ==
  <<"M", "o", "d", "e", "l", " ", "d", "i", "d", " ", "n", "o", "t", " ", "r", "e",
    "t", "u", "r", "n", " ", "v", "a", "l", "i", "d", " ", "J", "S", "O", "N", " ",
    "o", "u", "t", "p", "u", "t", ".">>
MSG_RERUN ==
  <<"R", "e", "-", "r", "u", "n", " ", "t", "h", "e", " ", "r", "e", "v", "i", "e",
    "w", ".">>
MSG_SNIPPET ==
  <<"E", "n", "s", "u", "r", "e", " ", "t", "h", "e", " ", "s", "n", "i", "p", "p",
    "e", "t", " ", "i", "s", " ", "c", "o", "m", "p", "l", "e", "t", "e", " ", "a",
    "n", "d", " ", "i", "n", "c", "l", "u", "d", "e", "s", " ", "r", "e", "q", "u",
    "i", "r", "e", "d", " ", "i", "m", "p", "o", "r", "t", "s", ".">>
MSG_CALL_FAILED ==
  <<"M", "o", "d", "e", "l", " ", "c", "a", "l", "l", " ", "f", "a", "i", "l", "e",
    "d", ":", " ">>
MSG_CHECK_KEY ==
  <<"C", "h", "e", "c", "k", " ", "y", "o", "u", "r", " ", "G", "E", "M", "I", "N",
    "I", "_", "A", "P", "I", "_", "K", "E", "Y", " ", "a", "n", "d", " ", "i", "n",
    "t", "e", "r", "n", "e", "t", " ", "c", "o", "n", "n", "e", "c", "t", "i", "v",
    "i", "t", "y", ".">>
MSG_INSTALL ==
  <<"E", "n", "s", "u", "r", "e", " ", "g", "o", "o", "g", "l", "e", "-", "g", "e",
    "n", "a", "i", " ", "i", "s", " ", "i", "n", "s", "t", "a", "l", "l", "e", "d",
    " ", "(", "v", "e", "r", "s", "i", "o", "n", " ", "0", ".", "3", ".", "0", ")",
    ".">>
\* RuntimeError message of get_client.
MSG_KEY_NOT_SET == <<CrossMark>> \o MSG_KEY_TAIL

\* ------------------------------------------------------- Python str methods
\* All sequences over S of length at most n.
SeqsUpTo(S, n) == UNION {[1..k -> S] : k \in 0..n}

\* 1-based index of the first character at or after i that is in S (Len+1 if none).
FirstIn(s, i, S) ==
  IF \E j \in i..Len(s) : s[j] \in S
  THEN CHOOSE j \in i..Len(s) : s[j] \in S /\ \A k \in i..(j - 1) : s[k] \notin S
  ELSE Len(s) + 1

\* 1-based index of the first character at or after i that is not in S (Len+1 if none).
FirstNotIn(s, i, S) ==
  IF \E j \in i..Len(s) : s[j] \notin S
  THEN CHOOSE j \in i..Len(s) : s[j] \notin S /\ \A k \in i..(j - 1) : s[k] \in S
  ELSE Len(s) + 1

\* 1-based index of the last character that is not in S (0 if none).
LastNotIn(s, S) ==
  IF \E j \in 1..Len(s) : s[j] \notin S
  THEN CHOOSE j \in 1..Len(s) : s[j] \notin S /\ \A k \in (j + 1)..Len(s) : s[k] \in S
  ELSE 0

\* s.strip()
strip(s) == SubSeq(s, FirstNotIn(s, 1, PyWhitespace), LastNotIn(s, PyWhitespace))

\* s.find(c): the 0-based index of the first c, -1 when there is none.
find(s, c) ==
  IF \E i \in 1..Len(s) : s[i] = c
  THEN (CHOOSE i \in 1..Len(s) : s[i] = c /\ \A j \in 1..(i - 1) : s[j] # c) - 1
  ELSE -1

\* s.rfind(c): the 0-based index of the last c, -1 when there is none.
rfind(s, c) ==
  IF \E i \in 1..Len(s) : s[i] = c
  THEN (CHOOSE i \in 1..Len(s) : s[i] = c /\ \A j \in (i + 1)..Len(s) : s[j] # c) - 1
  ELSE -1

\* s[a:b] for 0 <= a and 0 <= b (Python clamps b to len(s); a >= b gives "").
PySlice(s, a, b) ==
  LET hi == IF b > Len(s) THEN Len(s) ELSE b
  IN  IF a >= hi THEN <<>> ELSE SubSeq(s, a + 1, hi)

\* Python truthiness of a str: "not s" is s == "".
Falsy(s) == s = <<>>

\* ------------------------------------------------------ the two fence regexes
\* 1-based index just past the run of [a-zA-Z] starting at i.
LettersEnd(s, i) == FirstNotIn(s, i, AsciiLetters)

TicksAt(s, i) ==
  /\ i >= 1
  /\ i + 2 <= Len(s)
  /\ s[i] = Tick /\ s[i + 1] = Tick /\ s[i + 2] = Tick

\* re.sub(r"^```[a-zA-Z]*\n?", "", s): ^ matches at the start only (no MULTILINE).
SubLeadingFence(s) ==
  IF TicksAt(s, 1)
  THEN LET k == LettersEnd(s, 4)
           e == IF k <= Len(s) /\ s[k] = NL THEN k + 1 ELSE k
       IN  SubSeq(s, e, Len(s))
  ELSE s

\* re.sub(r"```$", "", s): $ matches at the end and just before a final newline.
SubTrailingFence(s) ==
  IF TicksAt(s, Len(s) - 2)
  THEN SubSeq(s, 1, Len(s) - 3)
  ELSE IF Len(s) >= 1 /\ s[Len(s)] = NL /\ TicksAt(s, Len(s) - 3)
       THEN Append(SubSeq(s, 1, Len(s) - 4), NL)
       ELSE s

\* ------------------------------------------------------------- JSON values
JStr(s) == [t |-> "str", s |-> s, items |-> <<>>, keys |-> <<>>]
JNum(s) == [t |-> "num", s |-> s, items |-> <<>>, keys |-> <<>>]
JLit(s) == [t |-> "lit", s |-> s, items |-> <<>>, keys |-> <<>>]
JArr(items) == [t |-> "arr", s |-> <<>>, items |-> items, keys |-> <<>>]
\* A dict: keys in insertion order, items[i] the value of keys[i].
JObj(keys, vals) == [t |-> "obj", s |-> <<>>, items |-> vals, keys |-> keys]
JNull == JLit(<<"n", "u", "l", "l">>)

IsObj(v) == v.t = "obj"
HasKey(v, k) == IsObj(v) /\ \E i \in 1..Len(v.keys) : v.keys[i] = k
\* v[k] of a dict holding k.
Get(v, k) == v.items[CHOOSE i \in 1..Len(v.keys) : v.keys[i] = k]

\* d[k] = v on a dict under construction: a repeated key keeps its place, takes the new value.
DictPut(keys, vals, k, v) ==
  IF \E i \in 1..Len(keys) : keys[i] = k
  THEN [keys |-> keys,
        vals |-> [vals EXCEPT ![CHOOSE i \in 1..Len(keys) : keys[i] = k] = v]]
  ELSE [keys |-> Append(keys, k), vals |-> Append(vals, v)]

\* --------------------------------------------------------------- json.loads
ParseFail == [ok |-> FALSE, pos |-> 0, val |-> JNull]
ParseOk(p, v) == [ok |-> TRUE, pos |-> p, val |-> v]

\* s[i:i+len(w)] == w, with i 1-based.
MatchAt(s, i, w) ==
  /\ i + Len(w) - 1 <= Len(s)
  /\ SubSeq(s, i, i + Len(w) - 1) = w

\* WHITESPACE.match(s, i).end()
SkipWs(s, i) == FirstNotIn(s, i, JsonWs)

\* 1-based index just past the run of digits starting at i.
DigitsEnd(s, i) == FirstNotIn(s, i, Digits)

\* The character a backslash escape denotes.
Unescape(c) ==
  CASE c = "n" -> "\n"
    [] c = "t" -> "\t"
    [] c = "r" -> "\r"
    [] c = "f" -> "\f"
    [] c = "b" -> "U+0008"
    [] OTHER -> c

\* The character \uXXXX denotes (the model's texts hold one such character).
UnicodeChar(h) == IF h = <<"2", "7", "4", "c">> THEN CrossMark ELSE "U+FFFD"

RECURSIVE ScanString(_, _, _)
\* py_scanstring, strict: i is just past the opening quote, acc the characters so far.
ScanString(s, i, acc) ==
  LET \* STRINGCHUNK: the run of plain characters, then the terminator that ends it
      j == FirstIn(s, i, {Quote, Backslash} \cup ControlChars)
      chunk == acc \o SubSeq(s, i, j - 1)
  IN  IF j > Len(s) THEN ParseFail
      ELSE IF s[j] = Quote THEN ParseOk(j + 1, JStr(chunk))
      ELSE IF s[j] \in ControlChars THEN ParseFail
      ELSE IF j + 1 > Len(s) THEN ParseFail
      ELSE IF s[j + 1] \in {Quote, Backslash, "/", "b", "f", "n", "r", "t"}
           THEN ScanString(s, j + 2, Append(chunk, Unescape(s[j + 1])))
      ELSE IF /\ s[j + 1] = "u"
              /\ j + 5 <= Len(s)
              /\ \A k \in 2..5 : s[j + k] \in HexDigits
           THEN ScanString(s, j + 6, Append(chunk, UnicodeChar(SubSeq(s, j + 2, j + 5))))
      ELSE ParseFail

\* NUMBER_RE = (-?(?:0|[1-9]\d*))(\.\d+)?([eE][-+]?\d+)? matched at i:
\* the index just past the match, 0 when there is none.
NumberEnd(s, i) ==
  LET j0 == IF i <= Len(s) /\ s[i] = "-" THEN i + 1 ELSE i
  IN  IF ~(j0 <= Len(s) /\ s[j0] \in Digits) THEN 0
      ELSE LET j1 == IF s[j0] = "0" THEN j0 + 1 ELSE DigitsEnd(s, j0)
               j2 == IF j1 + 1 <= Len(s) /\ s[j1] = "." /\ s[j1 + 1] \in Digits
                     THEN DigitsEnd(s, j1 + 1) ELSE j1
               k  == IF j2 + 1 <= Len(s) /\ s[j2] \in {"e", "E"} /\ s[j2 + 1] \in {"+", "-"}
                     THEN j2 + 2 ELSE j2 + 1
               j3 == IF j2 <= Len(s) /\ s[j2] \in {"e", "E"} /\ k <= Len(s) /\ s[k] \in Digits
                     THEN DigitsEnd(s, k) ELSE j2
           IN  j3

W_null == <<"n", "u", "l", "l">>
W_true == <<"t", "r", "u", "e">>
W_false == <<"f", "a", "l", "s", "e">>
W_NaN == <<"N", "a", "N">>
W_Infinity == <<"I", "n", "f", "i", "n", "i", "t", "y">>
W_NegInfinity == <<"-">> \o W_Infinity

RECURSIVE ParseValue(_, _)
RECURSIVE ParseMembers(_, _, _, _)
RECURSIVE ParseElements(_, _, _)

\* JSONObject's loop: i is where a key's opening quote must be.
ParseMembers(s, i, keys, vals) ==
  IF ~(i <= Len(s) /\ s[i] = Quote) THEN ParseFail
  ELSE LET k == ScanString(s, i + 1, <<>>)
       IN  IF ~k.ok THEN ParseFail
           ELSE LET c == SkipWs(s, k.pos)
                IN  IF ~(c <= Len(s) /\ s[c] = ":") THEN ParseFail
                    ELSE LET v == ParseValue(s, SkipWs(s, c + 1))
                         IN  IF ~v.ok THEN ParseFail
                             ELSE LET d == DictPut(keys, vals, k.val.s, v.val)
                                      e == SkipWs(s, v.pos)
                                  IN  IF e > Len(s) THEN ParseFail
                                      ELSE IF s[e] = RBrace
                                           THEN ParseOk(e + 1, JObj(d.keys, d.vals))
                                      ELSE IF s[e] = ","
                                           THEN ParseMembers(s, SkipWs(s, e + 1), d.keys, d.vals)
                                      ELSE ParseFail

\* JSONArray's loop: i is where an element must start.
ParseElements(s, i, items) ==
  LET v == ParseValue(s, i)
  IN  IF ~v.ok THEN ParseFail
      ELSE LET e == SkipWs(s, v.pos)
           IN  IF e > Len(s) THEN ParseFail
               ELSE IF s[e] = "]" THEN ParseOk(e + 1, JArr(Append(items, v.val)))
               ELSE IF s[e] = "," THEN ParseElements(s, SkipWs(s, e + 1), Append(items, v.val))
               ELSE ParseFail

\* scanner.py_make_scanner's _scan_once at i.
ParseValue(s, i) ==
  IF i > Len(s) THEN ParseFail
  ELSE IF s[i] = Quote THEN ScanString(s, i + 1, <<>>)
  ELSE IF s[i] = LBrace
       THEN LET j == SkipWs(s, i + 1)
            IN  IF j <= Len(s) /\ s[j] = RBrace
                THEN ParseOk(j + 1, JObj(<<>>, <<>>))
                ELSE ParseMembers(s, j, <<>>, <<>>)
  ELSE IF s[i] = "["
       THEN LET j == SkipWs(s, i + 1)
            IN  IF j <= Len(s) /\ s[j] = "]"
                THEN ParseOk(j + 1, JArr(<<>>))
                ELSE ParseElements(s, j, <<>>)
  ELSE IF MatchAt(s, i, W_null) THEN ParseOk(i + 4, JLit(W_null))
  ELSE IF MatchAt(s, i, W_true) THEN ParseOk(i + 4, JLit(W_true))
  ELSE IF MatchAt(s, i, W_false) THEN ParseOk(i + 5, JLit(W_false))
  ELSE IF NumberEnd(s, i) # 0 THEN ParseOk(NumberEnd(s, i), JNum(SubSeq(s, i, NumberEnd(s, i) - 1)))
  ELSE IF MatchAt(s, i, W_NaN) THEN ParseOk(i + 3, JLit(W_NaN))
  ELSE IF MatchAt(s, i, W_Infinity) THEN ParseOk(i + 8, JLit(W_Infinity))
  ELSE IF MatchAt(s, i, W_NegInfinity) THEN ParseOk(i + 9, JLit(W_NegInfinity))
  ELSE ParseFail

\* json.loads(s): ok is FALSE where it raises json.JSONDecodeError.
json_loads(s) ==
  LET v == ParseValue(s, SkipWs(s, 1))
  IN  IF v.ok /\ SkipWs(s, v.pos) = Len(s) + 1 THEN v ELSE ParseFail

\* --------------------------------------------------------------- json.dumps
\* encode_basestring_ascii on one character.
EscapeChar(c) ==
  CASE c = Quote -> <<Backslash, Quote>>
    [] c = Backslash -> <<Backslash, Backslash>>
    [] c = "\n" -> <<Backslash, "n">>
    [] c = "\t" -> <<Backslash, "t">>
    [] c = "\r" -> <<Backslash, "r">>
    [] c = "\f" -> <<Backslash, "f">>
    [] c = CrossMark -> <<Backslash, "u", "2", "7", "4", "c">>
    [] OTHER -> <<c>>

\* The characters ESCAPE_ASCII rewrites.
NeedsEscape == {Quote, Backslash, "\n", "\t", "\r", "\f", CrossMark}

RECURSIVE EscapeFrom(_, _)
\* s from i on, escaped: the plain run up to the next rewritten character, then the rest.
EscapeFrom(s, i) ==
  LET j == FirstIn(s, i, NeedsEscape)
  IN  IF j > Len(s) THEN SubSeq(s, i, Len(s))
      ELSE SubSeq(s, i, j - 1) \o EscapeChar(s[j]) \o EscapeFrom(s, j + 1)

DumpStr(s) == <<Quote>> \o EscapeFrom(s, 1) \o <<Quote>>

RECURSIVE DumpStrings(_, _)
\* A list of strings from its element i on, joined by the item separator ", ".
DumpStrings(items, i) ==
  IF i > Len(items) THEN <<>>
  ELSE (IF i > 1 THEN <<",", SP>> ELSE <<>>) \o DumpStr(items[i].s) \o DumpStrings(items, i + 1)

\* A member's value: a string, a list of strings, or a number or literal as written.
DumpValue(v) ==
  IF v.t = "str" THEN DumpStr(v.s)
  ELSE IF v.t = "arr" THEN <<"[">> \o DumpStrings(v.items, 1) \o <<"]">>
  ELSE v.s

RECURSIVE DumpMembers(_, _)
\* The members from i on: key, the key separator ": ", value.
DumpMembers(v, i) ==
  IF i > Len(v.keys) THEN <<>>
  ELSE (IF i > 1 THEN <<",", SP>> ELSE <<>>)
       \o DumpStr(v.keys[i]) \o <<":", SP>> \o DumpValue(v.items[i])
       \o DumpMembers(v, i + 1)

\* json.dumps(v), default separators and ensure_ascii, for the values review_code
\* serializes: a dict whose values are strings and lists of strings.
json_dumps(v) ==
  IF v.t = "obj" THEN <<LBrace>> \o DumpMembers(v, 1) \o <<RBrace>> ELSE DumpValue(v)

\* ------------------------------------------------------- Optional[str] values
NoneV == [none |-> TRUE, v |-> <<>>]
Some(s) == [none |-> FALSE, v |-> s]
\* "not x" for an Optional[str]: None and "" are falsy.
FalsyOpt(x) == x.none \/ x.v = <<>>

\* ------------------------------------------------------------ the sanitizers
\* re.sub(r"^```[a-zA-Z]*\n?", "", s.strip()), then re.sub(r"```$", "", ...).
StripFences(s) == SubTrailingFence(SubLeadingFence(strip(s)))

\* Faulty variant of FrontSlice: cleaned[start:end], which drops the closing brace.
FrontSlice_exclusive(cleaned) ==
  LET start == find(cleaned, LBrace)
      end == rfind(cleaned, RBrace)
  IN  IF start # -1 /\ end # -1
      THEN PySlice(cleaned, start, end)
      ELSE cleaned

\* clean_json_output lines 27-31, on the fence-stripped text.
FrontSlice(cleaned) ==
  LET start == find(cleaned, LBrace)
      end == rfind(cleaned, RBrace)
  IN  IF start # -1 /\ end # -1
      THEN PySlice(cleaned, start, end + 1)
      ELSE cleaned

\* app.py clean_json_output(raw).
clean_json_output(raw) ==
  IF Falsy(raw) THEN <<LBrace, RBrace>> ELSE FrontSlice(StripFences(raw))

\* Faulty variant of ValidateCandidate: the candidate returned without the json.loads check.
ValidateCandidate_unchecked(candidate) == Some(candidate)

\* _clean_to_json_str lines 111-115: the candidate if json.loads takes it.
ValidateCandidate(candidate) ==
  IF json_loads(candidate).ok THEN Some(candidate) ELSE NoneV

\* _clean_to_json_str lines 107-116, on the fence-stripped text.
ClientSlice(cleaned) ==
  LET start == find(cleaned, LBrace)
      end == rfind(cleaned, RBrace)
  IN  IF start # -1 /\ end # -1 /\ end > start
      THEN ValidateCandidate(PySlice(cleaned, start, end + 1))
      ELSE NoneV

\* gemini_client.py _clean_to_json_str(text): Some(candidate) or None.
_clean_to_json_str(text) ==
  IF Falsy(text) THEN NoneV ELSE ClientSlice(StripFences(text))

\* ------------------------------------------------------------ the Model Client
\* Faulty variant of get_client: "if api_key is None", which lets an empty key through.
get_client_none_only(api_key) ==
  IF api_key.none
  THEN [raised |-> TRUE, msg |-> MSG_KEY_NOT_SET]
  ELSE [raised |-> FALSE, msg |-> <<>>]

\* get_client(): raises RuntimeError when GEMINI_API_KEY is unset or empty.
get_client(api_key) ==
  IF FalsyOpt(api_key)
  THEN [raised |-> TRUE, msg |-> MSG_KEY_NOT_SET]
  ELSE [raised |-> FALSE, msg |-> <<>>]

S_Auto_detect == <<"A", "u", "t", "o", "-", "d", "e", "t", "e", "c", "t">>

\* build_prompt: the two values the prompt is formatted from.
build_prompt(user_code, language_hint) ==
  [lang |-> IF FalsyOpt(language_hint) THEN S_Auto_detect ELSE language_hint.v,
   code |-> user_code]

\* The shapes of a provider response review_code tells apart.
CandShapes == {"no_candidates", "no_content", "no_parts", "part_no_text", "part_text"}

\* review_code lines 147-157: the text taken from the response.
ExtractText(resp) ==
  IF ~FalsyOpt(resp.text) THEN resp.text
  ELSE IF resp.cand = "part_text" THEN resp.part_text
  ELSE resp.text

\* The payload review_code returns when the model gave no valid JSON.
fallback ==
  JObj(<<S_code_status, S_issues_found, S_suggestions>>,
       <<JStr(S_Incorrect),
         JArr(<<JStr(MSG_NOT_VALID_JSON)>>),
         JArr(<<JStr(MSG_RERUN), JStr(MSG_SNIPPET)>>)>>)

\* Faulty variant of error_json: the except branch returns the generic payload, its issue not
\* naming the failure.
error_json_generic(msg) == fallback

\* The payload review_code returns when the call raised e, msg being str(e).
error_json(msg) ==
  JObj(<<S_code_status, S_issues_found, S_suggestions>>,
       <<JStr(S_Incorrect),
         JArr(<<JStr(MSG_CALL_FAILED \o msg)>>),
         JArr(<<JStr(MSG_CHECK_KEY), JStr(MSG_INSTALL)>>)>>)

\* Faulty variant of review_code_return: "return text" where the code returns json_str.
review_code_return_text(text, json_str) ==
  [text |-> text,
   json_str |-> json_str,
   ret |-> IF ~FalsyOpt(json_str) THEN text.v ELSE json_dumps(fallback)]

\* review_code lines 163-177: the candidate if there is one, else the fallback payload.
review_code_return(text, json_str) ==
  [text |-> text,
   json_str |-> json_str,
   ret |-> IF ~FalsyOpt(json_str) THEN json_str.v ELSE json_dumps(fallback)]

\* review_code line 162: json_str = _clean_to_json_str(text or "").
review_code_sanitize(text) ==
  review_code_return(text, _clean_to_json_str(IF FalsyOpt(text) THEN <<>> ELSE text.v))

\* review_code from the response on (lines 147-177): its locals and its return value.
review_code_response(resp) == review_code_sanitize(ExtractText(resp))

\* review_code's except branch (lines 179-191).
review_code_except(msg) == json_dumps(error_json(msg))

\* ---------------------------------------------------------------- the HTTP front
NoResponse == [status |-> 0, via |-> "none", body |-> JNull]
ErrorBody(msg) == JObj(<<S_error>>, <<JStr(msg)>>)
SummaryBody(raw) == JObj(<<S_summary, S_raw>>, <<JStr(MSG_NON_JSON), JStr(raw)>>)

\* api_review lines 46-48: the parsed object, or the soft-fail summary when
\* json.loads raised JSONDecodeError.
api_review_parsed(raw, cleaned, parsed) ==
  [cleaned |-> cleaned,
   response |-> IF parsed.ok
                THEN [status |-> 200, via |-> "result", body |-> parsed.val]
                ELSE [status |-> 200, via |-> "summary", body |-> SummaryBody(raw)]]

\* api_review line 45: parsed = json.loads(cleaned).
api_review_cleaned(raw, cleaned) == api_review_parsed(raw, cleaned, json_loads(cleaned))

\* api_review lines 44-48: what the handler returns for review_code's return value.
api_review_respond(raw) == api_review_cleaned(raw, clean_json_output(raw))

\* An exception raised outside the handler's try (lines 36-38): Flask answers 500
\* with its own error page, which is no JSON body of the handler's.
flask_unhandled == [status |-> 500, via |-> "unhandled", body |-> JNull]

\* Faulty variant of api_review_except: no except clause but the JSONDecodeError one, so the
\* exception leaves the handler.
api_review_reraise(msg) == flask_unhandled

\* api_review line 50: any other exception.
api_review_except(msg) == [status |-> 500, via |-> "error", body |-> ErrorBody(msg)]

\* api_review line 40.
api_review_no_code == [status |-> 400, via |-> "error", body |-> ErrorBody(MSG_NO_CODE)]

\* Faulty variant of RequestCode: the code taken without .strip().
RequestCode_unstripped(b) ==
  IF b.kind = "object" /\ b.code.present THEN b.code.v ELSE <<>>

\* api_review line 37: code = data.get("code", "").strip(), for a body whose code
\* is absent or a string.
RequestCode(b) ==
  strip(IF b.kind = "object" /\ b.code.present THEN b.code.v ELSE <<>>)

\* api_review line 38: language = data.get("language").
RequestLanguage(b) ==
  IF b.kind = "object" /\ b.language.present THEN Some(b.language.v) ELSE NoneV

\* Faulty variant of review_code_entry: the credential is not checked before the call, so the
\* call is issued and it is the provider that rejects the request.
review_code_entry_call_first(code, language, key) ==
  [raised |-> get_client(key).raised, msg |-> get_client(key).msg, calls |-> 1,
   prompt |-> build_prompt(code, language)]

\* review_code lines 127-142: get_client() raises, or the prompt is built and
\* generate_content is called.
review_code_entry(code, language, key) ==
  IF get_client(key).raised
  THEN [raised |-> TRUE, msg |-> get_client(key).msg, calls |-> 0,
        prompt |-> build_prompt(<<>>, NoneV)]
  ELSE [raised |-> FALSE, msg |-> <<>>, calls |-> 1,
        prompt |-> build_prompt(code, language)]

\* api_review from review_code's entry on: line 50 if it raised, else the call is out.
api_review_called(rc) ==
  IF rc.raised
  THEN [next |-> "done", response |-> api_review_except(rc.msg), calls |-> rc.calls,
        exc |-> Some(rc.msg), prompt |-> rc.prompt]
  ELSE [next |-> "calling", response |-> NoResponse, calls |-> rc.calls,
        exc |-> NoneV, prompt |-> rc.prompt]

\* api_review lines 36-43 and review_code lines 127-142, up to the provider call:
\* next is "done" with the response returned, or "calling" with the call issued.
\* b is the request's JSON body as request.get_json(silent=True) sees it.
api_review_entry(b, key) ==
  LET stop(resp, e) ==
        [next |-> "done", response |-> resp, calls |-> 0, exc |-> e,
         prompt |-> build_prompt(<<>>, NoneV)]
  IN  \* line 36: a truthy body that is no dict has no .get (AttributeError)
      IF b.kind = "other" THEN stop(flask_unhandled, NoneV)
      \* line 37: a code that is no string has no .strip (AttributeError)
      ELSE IF b.kind = "object" /\ b.code.present /\ ~b.code.str
           THEN stop(flask_unhandled, NoneV)
      ELSE IF Falsy(RequestCode(b)) THEN stop(api_review_no_code, NoneV)
      ELSE api_review_called(review_code_entry(RequestCode(b), RequestLanguage(b), key))

\* ------------------------------------------------------------------- inputs
\* A field of the request's JSON object: absent, a string, or a value that is no string.
Absent == [present |-> FALSE, str |-> FALSE, v |-> <<>>]
NonStr == [present |-> TRUE, str |-> FALSE, v |-> <<>>]
Str(s) == [present |-> TRUE, str |-> TRUE, v |-> s]

Codes == {<<>>, <<SP>>, <<NL, SP>>, <<"x">>, <<SP, "x", NL>>}
Languages == {Absent, Str(<<"p", "y">>)}

\* get_json(silent=True): None (no or malformed JSON), a falsy JSON value, a JSON
\* object, or another truthy JSON value (a list, a string, a number).
Bodies ==
  {[kind |-> k, code |-> Absent, language |-> Absent] : k \in {"none", "falsy", "other"}}
  \cup {[kind |-> "object", code |-> c, language |-> l] :
          c \in {Absent, NonStr} \cup {Str(s) : s \in Codes}, l \in Languages}

\* os.getenv("GEMINI_API_KEY")
ApiKeys == {NoneV, Some(<<>>), Some(<<"k">>)}

Sigma == {LBrace, RBrace, Tick, "a", NL, SP}
ShortTexts == SeqsUpTo(Sigma, MaxLen)

Fence == <<Tick, Tick, Tick>>
LangTag(k) == [i \in 1..k |-> IF i % 2 = 1 THEN "j" ELSE "S"]

\* {"a":1}   {"a": {}}   {"a":"}"}   {"a":"{"}   {a}   [1]   } {   {"a":1}}
Cores ==
  {<<LBrace, RBrace>>,
   <<LBrace, Quote, "a", Quote, ":", "1", RBrace>>,
   <<LBrace, Quote, "a", Quote, ":", SP, LBrace, RBrace, RBrace>>,
   <<LBrace, Quote, "a", Quote, ":", Quote, RBrace, Quote, RBrace>>,
   <<LBrace, Quote, "a", Quote, ":", Quote, LBrace, Quote, RBrace>>,
   <<LBrace, "a", RBrace>>,
   <<"[", "1", "]">>,
   <<RBrace, SP, LBrace>>,
   <<LBrace, Quote, "a", Quote, ":", "1", RBrace, RBrace>>}

Openers ==
  {<<>>, <<SP>>, <<"a", SP>>}
  \cup {Fence \o LangTag(k) \o nl : k \in 0..MaxLetters, nl \in {<<>>, <<NL>>}}

Closers == {<<>>, <<NL>> \o Fence, Fence, <<NL>> \o Fence \o <<NL>>, <<SP, "a">>}

ComposedTexts == {o \o c \o z : o \in Openers, c \in Cores, z \in Closers}
Texts == ShortTexts \cup ComposedTexts

MsgSigma == {"x", Quote, Backslash, LBrace, RBrace, NL}
Msgs == SeqsUpTo(MsgSigma, MaxMsgLen)

\* The provider's responses: a direct text, or a falsy one with each candidate shape
\* (parts[0].text, where there is one, being None or a text).
Responses ==
  {[text |-> Some(t), cand |-> "no_candidates", part_text |-> NoneV] : t \in Texts \ {<<>>}}
  \cup {[text |-> e, cand |-> c, part_text |-> NoneV] :
          e \in {NoneV, Some(<<>>)}, c \in CandShapes \ {"part_text"}}
  \cup {[text |-> e, cand |-> "part_text", part_text |-> p] :
          e \in {NoneV, Some(<<>>)},
          p \in {NoneV} \cup {Some(t) : t \in ShortTexts \cup Cores}}

NoOutcome ==
  [kind |-> "none", msg |-> <<>>,
   resp |-> [text |-> NoneV, cand |-> "no_candidates", part_text |-> NoneV]]

\* -------------------------------------------------------------------- state
VARIABLES
  pc,        \* "start", "calling", "done"; "san", "san_front", "san_done"
  body,      \* the request's JSON body
  api_key,   \* GEMINI_API_KEY
  prompt,    \* what the prompt of the provider call is built from
  calls,     \* generate_content calls issued for the request
  outcome,   \* what the provider did
  exc,       \* the exception review_code let escape, if any
  text,      \* review_code's local text (line 162)
  json_str,  \* review_code's local json_str (line 162)
  raw,       \* api_review's local raw: review_code's return value
  cleaned,   \* api_review's local cleaned
  response,  \* the HTTP response
  sent       \* responses produced for the request

vars ==
  <<pc, body, api_key, prompt, calls, outcome, exc, text, json_str, raw, cleaned,
    response, sent>>

Init ==
  /\ pc = "start"
  /\ body \in Bodies
  /\ api_key \in ApiKeys
  /\ prompt = build_prompt(<<>>, NoneV)
  /\ calls = 0
  /\ outcome = NoOutcome
  /\ exc = NoneV
  /\ text = NoneV
  /\ json_str = NoneV
  /\ raw = NoneV
  /\ cleaned = <<>>
  /\ response = NoResponse
  /\ sent = 0

\* The state after api_review has run to r: its first return, or the provider call.
Entered(r) ==
  /\ pc' = r.next
  /\ response' = r.response
  /\ sent' = IF r.next = "done" THEN sent + 1 ELSE sent
  /\ calls' = calls + r.calls
  /\ exc' = r.exc
  /\ prompt' = r.prompt

\* POST /api/review arrives: the handler runs to its first return or to the provider call.
api_review ==
  /\ pc = "start"
  /\ Entered(api_review_entry(body, api_key))
  /\ UNCHANGED <<body, api_key, outcome, text, json_str, raw, cleaned>>

\* The handler's return (lines 44-48) with f, for review_code's return value ret.
Responded(ret, f) ==
  /\ raw' = Some(ret)
  /\ cleaned' = f.cleaned
  /\ response' = f.response
  /\ sent' = sent + 1
  /\ pc' = "done"

\* The rest of api_review once review_code has returned ret.
Finish(ret) == Responded(ret, api_review_respond(ret))

\* generate_content raises, or reading the response's text does: review_code's
\* except branch returns the error payload and api_review answers with it.
provider_raises ==
  /\ pc = "calling"
  /\ \E k \in {"call_raises", "text_raises"}, m \in Msgs :
       /\ outcome' = [NoOutcome EXCEPT !.kind = k, !.msg = m]
       /\ Finish(review_code_except(m))
  /\ UNCHANGED <<body, api_key, prompt, calls, exc, text, json_str>>

\* review_code's locals rc after the provider returned r, and the handler's answer.
Returned(r, rc) ==
  /\ outcome' = [NoOutcome EXCEPT !.kind = "response", !.resp = r]
  /\ text' = rc.text
  /\ json_str' = rc.json_str
  /\ Finish(rc.ret)

\* generate_content returns a response: review_code extracts and sanitizes its text,
\* returns the candidate or the fallback payload, and api_review answers with it.
provider_returns ==
  /\ pc = "calling"
  /\ \E r \in Responses : Returned(r, review_code_response(r))
  /\ UNCHANGED <<body, api_key, prompt, calls, exc>>

Next == api_review \/ provider_raises \/ provider_returns

Spec == Init /\ [][Next]_vars

\* ------------------------------------------- the two sanitizers on their own
SanInit ==
  /\ pc = "san"
  /\ \E t \in Texts : text = Some(t) /\ raw = Some(t)
  /\ body = [kind |-> "none", code |-> Absent, language |-> Absent]
  /\ api_key = NoneV
  /\ prompt = build_prompt(<<>>, NoneV)
  /\ calls = 0
  /\ outcome = NoOutcome
  /\ exc = NoneV
  /\ json_str = NoneV
  /\ cleaned = <<>>
  /\ response = NoResponse
  /\ sent = 0

san_front ==
  /\ pc = "san"
  /\ cleaned' = clean_json_output(raw.v)
  /\ pc' = "san_front"
  /\ UNCHANGED <<body, api_key, prompt, calls, outcome, exc, text, json_str, raw,
                 response, sent>>

san_client ==
  /\ pc = "san_front"
  /\ json_str' = _clean_to_json_str(text.v)
  /\ pc' = "san_done"
  /\ UNCHANGED <<body, api_key, prompt, calls, outcome, exc, text, raw, cleaned,
                 response, sent>>

SanNext == san_front \/ san_client

SanSpec == SanInit /\ [][SanNext]_vars

\* ==================================================================== claims
Blank(s) == \A i \in 1..Len(s) : s[i] \in PyWhitespace

\* A Review Request whose code is missing, empty or whitespace-only: no JSON body, a
\* falsy one, or a JSON object whose code is absent or a blank string.
BlankCodeRequest ==
  \/ body.kind \in {"none", "falsy"}
  \/ /\ body.kind = "object"
     /\ ~body.code.present \/ (body.code.str /\ Blank(body.code.v))

\* A Review Request whose code is a string with a non-whitespace character.
NonEmptyCodeRequest ==
  /\ body.kind = "object"
  /\ body.code.present
  /\ body.code.str
  /\ ~Blank(body.code.v)

\* The body {"error": msg}.
IsErrorObject(v, msg) == v = JObj(<<S_error>>, <<JStr(msg)>>)

AnsweredWithJsonObject ==
  /\ sent = 1
  /\ response.via \in {"error", "summary", "result"}
  /\ IsObj(response.body)
  /\ response.via = "error" => response.body.keys = <<S_error>>
  /\ response.via = "summary" => response.body.keys = <<S_summary, S_raw>>
  /\ response.via = "result" => response.body = json_loads(cleaned).val

\* C2: a request with a non-empty code, whatever the Model Client did (a validated
\* candidate, a fallback payload, a raised exception), has ended answered with one JSON
\* object (error, summary or result) once the handler is past the provider call; before
\* that it is at its start or waiting for the provider, never ended without an answer.
C2_AlwaysJsonObject ==
  NonEmptyCodeRequest =>
    /\ pc \in {"start", "calling", "done"}
    /\ pc = "done" => AnsweredWithJsonObject
    /\ pc # "done" => sent = 0 /\ response = NoResponse

\* C2 witness: the three outcomes of the Model Client, each answered: a validated
\* candidate (here), and see C4_Witness (fallback) and C5_Witness (raised exception).
C2_Witness ==
  /\ pc = "done"
  /\ NonEmptyCodeRequest
  /\ outcome.kind = "response"
  /\ ~json_str.none
  /\ response.via = "result"
  /\ HasKey(response.body, <<"a">>)

\* C5: a request with a non-empty code while GEMINI_API_KEY is unset or empty is answered
\* 500 with {error: <get_client's message>}: the RuntimeError left review_code, the
\* handler returned, and no provider call, fallback payload or 200 was produced.
C5_MissingKeyIs500 ==
  (NonEmptyCodeRequest /\ FalsyOpt(api_key) /\ pc # "start") =>
    /\ pc = "done"
    /\ exc = Some(MSG_KEY_NOT_SET)
    /\ response.status = 500
    /\ response.via = "error"
    /\ IsErrorObject(response.body, MSG_KEY_NOT_SET)
    /\ calls = 0
    /\ raw.none

\* C5 witness: the credential set to the empty string, the request answered 500.
C5_Witness ==
  /\ pc = "done"
  /\ NonEmptyCodeRequest
  /\ api_key = Some(<<>>)
  /\ response.status = 500

\* C9: a request issues at most one provider call and gets exactly one response; a call
\* that raised is not repeated and surfaces as the fallback payload in a 200; a request
\* answered 400 or 500 issued no call.
C9_OneCallOneResponse ==
  /\ calls \in {0, 1}
  /\ sent = (IF pc = "done" THEN 1 ELSE 0)
  /\ (pc = "done" /\ outcome.kind = "call_raises") =>
        /\ calls = 1
        /\ response.status = 200
        /\ response.body = error_json(outcome.msg)
  /\ response.status \in {400, 500} => calls = 0

\* C9 witness: a provider call that raised, answered once with a 200.
C9_Witness ==
  /\ pc = "done"
  /\ outcome.kind = "call_raises"
  /\ outcome.msg = <<"x">>
  /\ calls = 1
  /\ sent = 1
  /\ response.status = 200

\* review_code was entered with a client (the provider call was issued) and is over.
ReviewCodeOver == pc = "done" /\ calls = 1

\* C3: once the client is constructed, review_code returns a string that parses as JSON
\* and raises nothing, whatever the provider did (the call raised, no text anywhere in
\* the response, reading the text raised, any text at all); the one exception that
\* leaves review_code is get_client's, for a missing credential.
C3_ReviewCodeReturnsJson ==
  /\ ReviewCodeOver => (~raw.none /\ json_loads(raw.v).ok /\ exc.none)
  /\ ~exc.none => (exc.v = MSG_KEY_NOT_SET /\ FalsyOpt(api_key) /\ calls = 0)

\* C3 witness: the provider's text has braces around something that is no JSON, and
\* review_code still returned a string that parses.
C3_Witness ==
  /\ ReviewCodeOver
  /\ text = Some(<<LBrace, "a", RBrace>>)
  /\ json_loads(raw.v).ok

\* The text from its first "{" to its last "}" ("" when there is no such slice).
BraceSlice(t) ==
  IF find(t, LBrace) # -1 /\ rfind(t, RBrace) > find(t, LBrace)
  THEN SubSeq(t, find(t, LBrace) + 1, rfind(t, RBrace) + 1)
  ELSE <<>>

\* The provider's text is empty, has no braces, or its brace slice is no JSON.
NoJsonInText ==
  \/ FalsyOpt(text)
  \/ ~json_loads(BraceSlice(text.v)).ok

\* v is a fallback payload whose one issue is the given text.
IsFallbackWith(v, issue) ==
  /\ IsObj(v)
  /\ HasKey(v, S_code_status) /\ Get(v, S_code_status) = JStr(S_Incorrect)
  /\ HasKey(v, S_issues_found) /\ Get(v, S_issues_found) = JArr(<<JStr(issue)>>)
  /\ HasKey(v, S_suggestions)
  /\ Get(v, S_suggestions).t = "arr"
  /\ Get(v, S_suggestions).items # <<>>

\* C4: when the provider call raised, review_code returns the fallback object whose
\* issue is "Model call failed: <message>"; when the provider's text is empty, has no
\* braces or has a brace slice that is no JSON, it returns the fallback object whose
\* issue is "Model did not return valid JSON output."; either has code_status
\* "Incorrect" and non-empty issues_found and suggestions.
C4_FallbackContract ==
  ReviewCodeOver =>
    /\ outcome.kind = "call_raises" =>
         /\ json_loads(raw.v).ok
         /\ IsFallbackWith(json_loads(raw.v).val, MSG_CALL_FAILED \o outcome.msg)
    /\ (outcome.kind = "response" /\ NoJsonInText) =>
         /\ json_loads(raw.v).ok
         /\ IsFallbackWith(json_loads(raw.v).val, MSG_NOT_VALID_JSON)

\* C4 witness: the call raised with a message holding a quote and a brace, and the
\* payload parsed back names that very message.
C4_Witness ==
  /\ ReviewCodeOver
  /\ outcome.kind = "call_raises"
  /\ outcome.msg = <<Quote, RBrace>>
  /\ IsFallbackWith(json_loads(raw.v).val, MSG_CALL_FAILED \o <<Quote, RBrace>>)

\* C10: every string review_code returns begins with "{", ends with "}" and parses as
\* JSON, clean_json_output returns it unchanged and json.loads takes it: the soft-fail
\* summary is never returned, and a 200 carries the validated candidate or one of the two
\* fallback payloads.
C10_SoftFailUnreachable ==
  /\ response.via # "summary"
  /\ ReviewCodeOver =>
       /\ ~raw.none
       /\ Len(raw.v) >= 2 /\ raw.v[1] = LBrace /\ raw.v[Len(raw.v)] = RBrace
       /\ json_loads(raw.v).ok
       /\ cleaned = raw.v
       /\ response.status = 200
       /\ response.via = "result"
       /\ response.body = json_loads(raw.v).val
       /\ \/ ~json_str.none /\ raw = json_str
          \/ json_str.none /\ response.body = fallback
          \/ json_str.none /\ response.body = error_json(outcome.msg)
  /\ response.status = 200 => ReviewCodeOver

\* C10 witness: a fenced reply with prose-free JSON inside; the candidate went through
\* clean_json_output unchanged and came back as the 200's body.
C10_Witness ==
  /\ ReviewCodeOver
  /\ text = Some(Fence \o LangTag(2) \o <<NL, LBrace, Quote, "a", Quote, ":", "1", RBrace, NL>> \o Fence)
  /\ cleaned = <<LBrace, Quote, "a", Quote, ":", "1", RBrace>>
  /\ response.via = "result"

\* ------------------------------------------------- claims about the sanitizers
FrontDone == pc \in {"san_front", "san_done"}
ClientDone == pc = "san_done"

\* The texts that begin with "{", end with "}" and parse as JSON.
CleanObjects ==
  {t \in Texts : Len(t) >= 2 /\ t[1] = LBrace /\ t[Len(t)] = RBrace /\ json_loads(t).ok}

\* J inside a markdown fence with a language tag of k letters.
Fenced(k, J) == Fence \o LangTag(k) \o <<NL>> \o J \o <<NL>> \o Fence

\* C6: for a text J that begins with "{", ends with "}" and parses as JSON, both
\* sanitizers return exactly J for J itself and for J inside a markdown fence.
C6_CleanObjectExtracted ==
  \A J \in CleanObjects :
    (text.v = J \/ \E k \in 0..MaxLetters : text.v = Fenced(k, J)) =>
      /\ FrontDone => cleaned = J
      /\ ClientDone => json_str = Some(J)

\* C6 witness: {"a": {}} inside a fence tagged with two letters, both sanitizers run.
C6_Witness ==
  /\ ClientDone
  /\ text.v = Fenced(2, <<LBrace, Quote, "a", Quote, ":", SP, LBrace, RBrace, RBrace>>)
  /\ cleaned = <<LBrace, Quote, "a", Quote, ":", SP, LBrace, RBrace, RBrace>>
  /\ json_str = Some(cleaned)

\* C7: for a text that is empty once stripped (the empty string and every
\* whitespace-only string), clean_json_output returns "{}" and _clean_to_json_str
\* returns None.
C7_BlankText ==
  Blank(text.v) =>
    /\ FrontDone => cleaned = <<LBrace, RBrace>>
    /\ ClientDone => json_str = NoneV

\* The fence-stripped text has a "{" and a "}" with the last "}" after the first "{".
Sliceable(c) == find(c, LBrace) # -1 /\ rfind(c, RBrace) # -1 /\ rfind(c, RBrace) > find(c, LBrace)

\* C8: both sanitizers slice the fence-stripped text from its first "{" to its last "}"
\* only when both exist and the last "}" is after the first "{"; otherwise
\* clean_json_output returns the fence-stripped text unsliced and _clean_to_json_str
\* returns None.  (The empty text is step 1's, claim C7.)
C8_SliceCondition ==
  text.v # <<>> =>
    /\ FrontDone =>
         cleaned = IF Sliceable(StripFences(text.v))
                   THEN BraceSlice(StripFences(text.v))
                   ELSE StripFences(text.v)
    /\ ClientDone =>
         /\ Sliceable(StripFences(text.v)) =>
              json_str \in {NoneV, Some(BraceSlice(StripFences(text.v)))}
         /\ ~Sliceable(StripFences(text.v)) => json_str = NoneV
====
